---- MODULE Spec2Model ----
(***************************************************************************)
(* State-machine model of the FlaskChat Socket.IO server (src/app.py):     *)
(* the identity table `users`, the bounded `message_history`, the          *)
(* per-connection throttle table `last_msg_time`, and the seven event      *)
(* handlers, which run concurrently and interleave at every statement,     *)
(* call and loop iteration.  Strings are sequences of characters so that   *)
(* str.strip() and the f-string formatting are computed, not assumed; a    *)
(* character that TLA+ cannot write is the piece "\\xNN" or "\\uNNNN".     *)
(* Optional values (dict.get results) are <<>> for None and <<v>> for v.   *)
(* Time is in milliseconds.                                                *)
(***************************************************************************)
EXTENDS Integers, Sequences, FiniteSets, TLC

\* ---------------------------------------------------------------- bounds
\* Connection ids the gateway can hand out.
SIDS == {"c1", "c2"}
\* The connection id of the scenarios with one client.
FirstSid == {"c1"}
\* Connection ids of the typing scenario.
MoreSids == {"c1", "c2", "c3"}
\* time.time() at the first event, in ms (any value far above the throttle).
StartTime == 1000
\* Four-digit numbers random.randint may return in this model.
UserNumbers == {1000, 9999}
\* Accepted public messages of the scenarios that are not about throttling.
MaxMsgs == 2
\* Accepted public messages, clock steps and clock range of the chat scenario.
ChatMsgs == 2
ChatSteps == {125}
ChatElapsed == 250
\* Records created, by first and repeated connects, in the duplicate-connect scenario.
MaxConnects == 3
\* Accepted public messages of the history-overflow scenario.
HistoryMsgs == 152

\* ------------------------------------------------------ program constants
MAX_HISTORY == 150
\* 0.25 s, in ms
MIN_SECONDS_BETWEEN_MSGS == 250

\* ---------------------------------------------------------------- strings
None == <<>>
Some(v) == <<v>>

Str_boy == <<"b", "o", "y">>
Str_girl == <<"g", "i", "r", "l">>
Str_other == <<"o", "t", "h", "e", "r">>
Str_hi == <<"h", "i">>
Str_hi_padded == <<"\f", "h", "i", " ">>
Str_blank == <<" ", "\\xa0">>
Str_bob == <<"b", "o", "b">>
Str_bob_padded == <<"\t", "b", "o", "b", "\\u2003">>
Str_empty == <<>>

\* Characters str.strip() removes: those str.isspace() holds for.  A character
\* that has no escape in a string is written as its code point.
Whitespace ==
    {" ", "\t", "\n", "\r", "\f", "\\x0b", "\\x1c", "\\x1d", "\\x1e", "\\x1f",
     "\\x85", "\\xa0", "\\u1680", "\\u2000", "\\u2001", "\\u2002", "\\u2003",
     "\\u2004", "\\u2005", "\\u2006", "\\u2007", "\\u2008", "\\u2009", "\\u200a",
     "\\u2028", "\\u2029", "\\u202f", "\\u205f", "\\u3000"}

\* str.lstrip()
RECURSIVE LStrip(_)
LStrip(s) ==
    IF s = <<>> THEN <<>>
    ELSE IF Head(s) \in Whitespace THEN LStrip(Tail(s))
    ELSE s

\* str.rstrip()
RECURSIVE RStrip(_)
RStrip(s) ==
    IF s = <<>> THEN <<>>
    ELSE IF s[Len(s)] \in Whitespace THEN RStrip(SubSeq(s, 1, Len(s) - 1))
    ELSE s

\* str.strip()
Strip(s) == RStrip(LStrip(s))

\* (opt or "")
OrEmpty(opt) == IF opt = None THEN Str_empty ELSE opt[1]

\* mutation of StripField: the value is not stripped
StripField_raw(opt) == OrEmpty(opt)

\* (data.get(key) or "").strip()
StripField(opt) == Strip(OrEmpty(opt))

DigitChars == <<"0", "1", "2", "3", "4", "5", "6", "7", "8", "9">>

\* str(n) for a four-digit n
FourDigits(n) ==
    << DigitChars[((n \div 1000) % 10) + 1], DigitChars[((n \div 100) % 10) + 1],
       DigitChars[((n \div 10) % 10) + 1], DigitChars[(n % 10) + 1] >>

\* f"User_{n}"
GeneratedName(n) == <<"U", "s", "e", "r", "_">> \o FourDigits(n)

Genders == {Str_boy, Str_girl}

\* the two literal parts of the f-string of _build_avatar, one piece each
AvatarPrefix == <<"https://avatar.iran.liara.run/public/">>

AvatarQuery == <<"?username=">>

\* _build_avatar(username, gender); r is random.choice's result, used only
\* when gender is None or empty.
_build_avatar(username, gender, r) ==
    LET g == IF gender = None \/ gender = Some(Str_empty) THEN r ELSE gender[1]
    IN  AvatarPrefix \o g \o AvatarQuery \o username

\* _now_iso() read at clock value t
_now_iso(t) == <<"utc", t>>

\* ------------------------------------------------------------------ state
VARIABLES
    users,            \* dict sid -> user: its entries [sid, ref] in insertion order
    objects,          \* the user dicts ever created; users and handlers hold references
    message_history,  \* deque(maxlen = MAX_HISTORY), oldest first
    last_msg_time,    \* defaultdict: function on the sids that have a key
    now,              \* the clock (time.time(), datetime.now()), ms
    connected,        \* clients the Socket.IO server has in the namespace
    tasks,            \* the handlers in flight, one per slot, each at a source line
    accepted_log,     \* history: every appended public message, with its sid
    connect_seq,      \* history: sids in the order their records were created
    emitted           \* history: new_message and user_left broadcasts, in emit order

vars == <<users, objects, message_history, last_msg_time, now, connected, tasks,
          accepted_log, connect_seq, emitted>>

\* ------------------------------------------------------------ dict helpers
\* A dict is the array of its entries, as CPython keeps it: a new key takes
\* the next entry, and the entry of a deleted key stays behind, empty.  (The
\* array is rebuilt when the sixth key is inserted; no scenario here
\* inserts that many.)

\* the entry a deleted key leaves behind
Deleted == [sid |-> "", ref |-> 0]

\* the entries of d that hold a key
Live(d) == {i \in 1..Len(d) : d[i] # Deleted}

\* position of key sid in dict d, 0 when absent
IndexOf(d, sid) ==
    IF \E i \in Live(d) : d[i].sid = sid
    THEN CHOOSE i \in Live(d) : d[i].sid = sid
    ELSE 0

Keys(d) == {d[i].sid : i \in Live(d)}

\* len(d)
Used(d) == Cardinality(Live(d))

\* d[sid] = <object ref> : a present key keeps its position, a new key goes last
DictSet(d, sid, ref) ==
    IF IndexOf(d, sid) = 0
    THEN Append(d, [sid |-> sid, ref |-> ref])
    ELSE [d EXCEPT ![IndexOf(d, sid)].ref = ref]

\* mutation of DictPop: the record is returned but the key stays
DictPop_keep(d, sid) == d

\* d after d.pop(sid, None)
DictPop(d, sid) ==
    LET i == IndexOf(d, sid)
    IN  IF i = 0 THEN d ELSE [d EXCEPT ![i] = Deleted]

\* iter(d.values()), iter(d.items()): the iterator is before the first entry
\* and remembers the size of d
DictIter(d) == [pos |-> 0, used |-> Used(d), len |-> Used(d)]

\* the first entry after position pos that holds a key, 0 when there is none
NextLive(d, pos) ==
    IF \E k \in Live(d) : k > pos
    THEN CHOOSE k \in Live(d) : k > pos /\ \A j \in Live(d) : j > pos => k <= j
    ELSE 0

\* the outcome of next(it) on dict d: RuntimeError when d has changed its
\* size since iter(), or when an entry turns up after as many entries as d
\* had have been returned; StopIteration after the last entry
DictIterNext(d, it) ==
    IF it.used # Used(d) THEN "RuntimeError"
    ELSE IF NextLive(d, it.pos) = 0 THEN "StopIteration"
    ELSE IF it.len = 0 THEN "RuntimeError"
    ELSE "value"

\* the iterator after next(it) has returned the entry at position k
DictIterAt(it, k) == [it EXCEPT !.pos = k, !.len = @ - 1]

\* mutation of _get_user: an unknown id gets the record of the first user
_get_user_first(sid) ==
    IF Live(users) = {} THEN None
    ELSE IF IndexOf(users, sid) = 0 THEN Some(users[NextLive(users, 0)].ref)
    ELSE Some(users[IndexOf(users, sid)].ref)

\* _get_user(sid) / users.get(sid): None or a reference to the record
_get_user(sid) ==
    IF IndexOf(users, sid) = 0 THEN None ELSE Some(users[IndexOf(users, sid)].ref)

\* the dict a reference points to
Deref(objs, ref) == objs[ref][1]

\* a record in the store carries the name
Held(name) == \E k \in Live(users) : Deref(objects, users[k].ref).username = name

\* obj[field] = value on the dict behind ref
SetUsername(objs, ref, v) == [objs EXCEPT ![ref] = Some([@[1] EXCEPT !.username = v])]
SetAvatar(objs, ref, v) == [objs EXCEPT ![ref] = Some([@[1] EXCEPT !.avatar = v])]
SetGender(objs, ref, v) == [objs EXCEPT ![ref] = Some([@[1] EXCEPT !.gender = v])]

\* mutation of DequeAppend: a full deque drops its newest entry
DequeAppend_dropNewest(q, m) ==
    IF Len(q) >= MAX_HISTORY THEN Append(SubSeq(q, 1, Len(q) - 1), m) ELSE Append(q, m)

\* deque.append on a deque with maxlen = MAX_HISTORY
DequeAppend(q, m) ==
    IF Len(q) >= MAX_HISTORY THEN Append(Tail(q), m) ELSE Append(q, m)

\* table[sid] = v
TableSet(table, sid, v) ==
    [s \in DOMAIN table \cup {sid} |-> IF s = sid THEN v ELSE table[s]]

\* ------------------------------------------------------------ emit targets
\* emit(...) inside a handler: the caller's own room
ToSelf(conn, sid) == conn \cap {sid}
\* emit(..., broadcast=True)
ToAll(conn, sid) == conn
\* emit(..., broadcast=True, include_self=False)
ToOthers(conn, sid) == conn \ {sid}
\* emit(..., room=target)
ToRoom(conn, target) == conn \cap {target}

\* an emitted event, the clients it is delivered to and the emitting connection
Event(name, payload, to, sid) ==
    [event |-> name, payload |-> payload, to |-> to, sid |-> sid]

\* payload of the events that carry none
NoData == [nothing |-> TRUE]

\* ------------------------------------------------------------------ tasks
\* The server runs every handler as a task of its own and takes no lock, and
\* CPython can switch to another task at every call and before every
\* iteration of a loop.  A step of a task is a statement, or the part of a
\* statement that a call or a loop separates from the rest: the arguments
\* read before _build_avatar or _now_iso is called and the assignment after
\* it, the arguments of an emit that are read from shared state and the call
\* of emit (args holds them in between), the factory call of the defaultdict
\* and the store after it, one iteration of a loop over `users`.  Statements that touch only locals are
\* executed together with the step before them.  A task is at the source line
\* it executes next (pc) and carries the handler's local variables and the
\* events it has emitted (out); pc = 0 when the handler is over, by a return
\* or (raised) by an exception that nothing catches, and the slot is idle
\* again once the server has ended the task.  The field held is history: a
\* record carried the target name when the search of on_private_message began.

\* the slots of the handlers in flight
Slots == {1, 2}

Task(op, sid, data, pc) ==
    [op |-> op, sid |-> sid, data |-> data, pc |-> pc, out |-> <<>>,
     user |-> None, now |-> 0, username |-> None, avatar_url |-> None,
     gender |-> None, old_username |-> None, new_username |-> None,
     msg_text |-> None, target_sid |-> None, message_data |-> None,
     it |-> None, payload |-> <<>>, args |-> None, raised |-> FALSE,
     held |-> FALSE]

Idle == Task("idle", "", NoData, 0)

Busy == {i \in Slots : tasks[i] # Idle}

\* the slot a new handler gets
FreeSlot == CHOOSE i \in Slots \ Busy : \A j \in Slots \ Busy : i <= j

\* the broadcasts the history variable keeps
Logged(ev) == SelectSeq(ev, LAMBDA e : e.event \in {"new_message", "user_left"})

\* dicts that the store or a handler in flight still refers to; the others are freed
Referenced(us, ts) ==
    {us[i].ref : i \in Live(us)}
        \cup {ts[i].user[1] : i \in {j \in Slots : ts[j].user # None}}

Sweep(objs, us, ts) ==
    [k \in 1..Len(objs) |-> IF k \in Referenced(us, ts) THEN objs[k] ELSE None]

\* the gateway hands an event to a new task
Start(t) ==
    /\ Busy # Slots
    /\ tasks' = [tasks EXCEPT ![FreeSlot] = t]
    /\ UNCHANGED <<users, objects, message_history, last_msg_time, now,
                   accepted_log, connect_seq, emitted>>

\* the statement of task i emitted ev and the handler goes on as t1
Goto(i, t1, ev) ==
    /\ tasks' = [tasks EXCEPT ![i] = [t1 EXCEPT !.out = @ \o ev]]
    /\ emitted' = emitted \o Logged(ev)
    /\ UNCHANGED now

\* the statement of task i emitted ev and the handler returned
Return(i, ev) ==
    /\ tasks' = [tasks EXCEPT ![i] =
                    [Task(@.op, @.sid, @.data, 0) EXCEPT !.out = tasks[i].out \o ev]]
    /\ emitted' = emitted \o Logged(ev)
    /\ UNCHANGED now

\* the statement of task i raised an exception: the handler is over
Raise(i) ==
    /\ tasks' = [tasks EXCEPT ![i] =
                    [Task(@.op, @.sid, @.data, 0) EXCEPT !.out = tasks[i].out,
                                                         !.raised = TRUE]]
    /\ UNCHANGED <<now, emitted>>

\* the server ends the task of a handler that is over; after on_disconnect
\* it takes the client out of the namespace
Finish(i) ==
    /\ tasks[i] # Idle
    /\ tasks[i].pc = 0
    /\ tasks' = [tasks EXCEPT ![i] = Idle]
    /\ connected' = IF tasks[i].op = "disconnect"
                    THEN connected \ {tasks[i].sid} ELSE connected
    /\ UNCHANGED <<users, objects, message_history, last_msg_time, now,
                   accepted_log, connect_seq, emitted>>

\* the heap after a statement that left it as objs
Heap(objs) == objects' = Sweep(objs, users', tasks')

At(i, op, pc) == tasks[i].op = op /\ tasks[i].pc = pc

Init ==
    /\ users = <<>>
    /\ objects = <<>>
    /\ message_history = <<>>
    /\ last_msg_time = [s \in {} |-> 0]
    /\ now = StartTime
    /\ connected = {}
    /\ tasks = [i \in Slots |-> Idle]
    /\ accepted_log = <<>>
    /\ connect_seq = <<>>
    /\ emitted = <<>>

\* ----------------------------------------------------- _online_users_payload
\* the handlers that call _online_users_payload() and the line of the call
ListLine(op) ==
    CASE op = "connect" -> 51
      [] op = "disconnect" -> 61
      [] op = "update_username" -> 111
      [] op = "update_avatar_gender" -> 132

\* line 36, users.values(): the call creates the iterator of the comprehension
_online_users_payload_L35(i) ==
    LET t == tasks[i]
    IN  /\ t.pc = 35
        /\ Goto(i, [t EXCEPT !.pc = 36, !.it = Some(DictIter(users))], <<>>)
        /\ UNCHANGED users
        /\ Heap(objects)
        /\ UNCHANGED <<message_history, last_msg_time, connected, accepted_log,
                       connect_seq>>

\* line 36, one iteration of the comprehension: the next record of `users`
\* gives {"username": u["username"], "avatar": u["avatar"]}; after the last
\* one the list is returned to the calling line
_online_users_payload_L36(i) ==
    LET t == tasks[i]
        it == t.it[1]
        r == DictIterNext(users, it)
        k == NextLive(users, it.pos)
        u == Deref(objects, users[k].ref)
    IN  /\ t.pc = 36
        /\ CASE r = "RuntimeError" -> Raise(i)
             [] r = "StopIteration" ->
                    Goto(i, [t EXCEPT !.pc = ListLine(t.op), !.it = None], <<>>)
             [] r = "value" ->
                    Goto(i, [t EXCEPT !.it = Some(DictIterAt(it, k)),
                                      !.payload = Append(@, [username |-> u.username,
                                                             avatar |-> u.avatar])],
                         <<>>)
        /\ UNCHANGED users
        /\ Heap(objects)
        /\ UNCHANGED <<message_history, last_msg_time, connected, accepted_log,
                       connect_seq>>

_online_users_payload(i) ==
    \/ _online_users_payload_L35(i)
    \/ _online_users_payload_L36(i)

\* ---------------------------------------------------------------- on_connect
\* lines 41-45: the random draws n and g, the avatar, users[request.sid] = {...}
on_connect_L41(i, n, g) ==
    LET t == tasks[i]
        username == GeneratedName(n)
        avatar_url == _build_avatar(username, Some(g), g)
        ref == Len(objects) + 1
    IN  /\ At(i, "connect", 41)
        /\ users' = DictSet(users, t.sid, ref)
        /\ connect_seq' = Append(connect_seq, t.sid)
        /\ Goto(i, [t EXCEPT !.pc = 47, !.username = Some(username),
                             !.avatar_url = Some(avatar_url)], <<>>)
        /\ Heap(Append(objects, Some([username |-> username, avatar |-> avatar_url,
                                      gender |-> g])))
        /\ UNCHANGED <<message_history, last_msg_time, connected, accepted_log>>

\* emit("set_username", {"username": username})
on_connect_L47(i) ==
    LET t == tasks[i]
    IN  /\ At(i, "connect", 47)
        /\ Goto(i, [t EXCEPT !.pc = 48],
                << Event("set_username", [username |-> t.username[1]],
                         ToSelf(connected, t.sid), t.sid) >>)
        /\ UNCHANGED <<users, objects, message_history, last_msg_time, connected,
                       accepted_log, connect_seq>>

\* the argument of the emit of line 48: {"messages": list(message_history)}
on_connect_L48(i) ==
    LET t == tasks[i]
    IN  /\ At(i, "connect", 48)
        /\ t.args = None
        /\ Goto(i, [t EXCEPT !.args = Some([messages |-> message_history])], <<>>)
        /\ UNCHANGED <<users, objects, message_history, last_msg_time, connected,
                       accepted_log, connect_seq>>

\* emit("message_history", <the argument>)
on_connect_L48_emit(i) ==
    LET t == tasks[i]
    IN  /\ At(i, "connect", 48)
        /\ t.args # None
        /\ Goto(i, [t EXCEPT !.pc = 50, !.args = None],
                << Event("message_history", t.args[1],
                         ToSelf(connected, t.sid), t.sid) >>)
        /\ UNCHANGED <<users, objects, message_history, last_msg_time, connected,
                       accepted_log, connect_seq>>

\* emit("user_joined", {"username": username, "avatar": avatar_url}, broadcast=True)
on_connect_L50(i) ==
    LET t == tasks[i]
    IN  /\ At(i, "connect", 50)
        /\ Goto(i, [t EXCEPT !.pc = 35],
                << Event("user_joined",
                         [username |-> t.username[1], avatar |-> t.avatar_url[1]],
                         ToAll(connected, t.sid), t.sid) >>)
        /\ UNCHANGED <<users, objects, message_history, last_msg_time, connected,
                       accepted_log, connect_seq>>

\* emit("online_users_list", {"users": <the list returned>}, broadcast=True)
on_connect_L51(i) ==
    LET t == tasks[i]
    IN  /\ At(i, "connect", 51)
        /\ Return(i, << Event("online_users_list", [users |-> t.payload],
                              ToAll(connected, t.sid), t.sid) >>)
        /\ UNCHANGED <<users, objects, message_history, last_msg_time, connected,
                       accepted_log, connect_seq>>

on_connect(i, numbers, genders) ==
    \/ \E n \in numbers, g \in genders : on_connect_L41(i, n, g)
    \/ on_connect_L47(i)
    \/ on_connect_L48(i)
    \/ on_connect_L48_emit(i)
    \/ on_connect_L50(i)
    \/ _online_users_payload(i)
    \/ on_connect_L51(i)

\* ------------------------------------------------------------- on_disconnect
\* user = users.pop(request.sid, None); if not user: return
on_disconnect_L57(i) ==
    LET t == tasks[i]
        user == _get_user(t.sid)
    IN  /\ At(i, "disconnect", 57)
        /\ users' = DictPop(users, t.sid)
        /\ IF user = None
           THEN Return(i, <<>>)
           ELSE Goto(i, [t EXCEPT !.pc = 60, !.user = user], <<>>)
        /\ Heap(objects)
        /\ UNCHANGED <<message_history, last_msg_time, connected, accepted_log,
                       connect_seq>>

\* the argument of the emit of line 60: {"username": user["username"]}
on_disconnect_L60(i) ==
    LET t == tasks[i]
    IN  /\ At(i, "disconnect", 60)
        /\ t.args = None
        /\ Goto(i, [t EXCEPT !.args =
                        Some([username |-> Deref(objects, t.user[1]).username])],
                <<>>)
        /\ UNCHANGED <<users, objects, message_history, last_msg_time, connected,
                       accepted_log, connect_seq>>

\* emit("user_left", <the argument>, broadcast=True)
on_disconnect_L60_emit(i) ==
    LET t == tasks[i]
    IN  /\ At(i, "disconnect", 60)
        /\ t.args # None
        /\ Goto(i, [t EXCEPT !.pc = 35, !.args = None],
                << Event("user_left", t.args[1], ToAll(connected, t.sid), t.sid) >>)
        /\ UNCHANGED <<users, objects, message_history, last_msg_time, connected,
                       accepted_log, connect_seq>>

\* emit("online_users_list", {"users": <the list returned>}, broadcast=True)
on_disconnect_L61(i) ==
    LET t == tasks[i]
    IN  /\ At(i, "disconnect", 61)
        /\ Return(i, << Event("online_users_list", [users |-> t.payload],
                              ToAll(connected, t.sid), t.sid) >>)
        /\ UNCHANGED users
        /\ Heap(objects)
        /\ UNCHANGED <<message_history, last_msg_time, connected, accepted_log,
                       connect_seq>>

on_disconnect(i) ==
    \/ on_disconnect_L57(i)
    \/ on_disconnect_L60(i)
    \/ on_disconnect_L60_emit(i)
    \/ _online_users_payload(i)
    \/ on_disconnect_L61(i)

\* ----------------------------------------------------------- on_send_message
\* mutation of Throttled: the interval itself is still throttled
Throttled_inclusive(t, previous) == t - previous <= MIN_SECONDS_BETWEEN_MSGS

\* the spam-protection test: now - last_msg_time[request.sid] < MIN_SECONDS_BETWEEN_MSGS
Throttled(t, previous) == t - previous < MIN_SECONDS_BETWEEN_MSGS

\* mutation of RecordSend: the time of the send is not recorded
RecordSend_never(table, sid, t) == table

\* last_msg_time[request.sid] = now
RecordSend(table, sid, t) == TableSet(table, sid, t)

\* now = time.time()
on_send_message_L66(i) ==
    LET t == tasks[i]
    IN  /\ At(i, "send_message", 66)
        /\ Goto(i, [t EXCEPT !.pc = 67, !.now = now], <<>>)
        /\ UNCHANGED <<users, objects, message_history, last_msg_time, connected,
                       accepted_log, connect_seq>>

\* if now - last_msg_time[request.sid] < MIN_SECONDS_BETWEEN_MSGS: return
\* with a key in the table; without one the defaultdict calls its factory
on_send_message_L67(i) ==
    LET t == tasks[i]
    IN  /\ At(i, "send_message", 67)
        /\ IF t.sid \notin DOMAIN last_msg_time
           THEN Goto(i, [t EXCEPT !.pc = 19], <<>>)
           ELSE IF Throttled(t.now, last_msg_time[t.sid])
           THEN Return(i, <<>>)
           ELSE Goto(i, [t EXCEPT !.pc = 69], <<>>)
        /\ UNCHANGED <<users, objects, message_history, last_msg_time, connected,
                       accepted_log, connect_seq>>

\* line 19, lambda: 0.0 has returned: the defaultdict stores 0.0 under the key,
\* whatever is there by now, and line 67 compares with it
on_send_message_L19(i) ==
    LET t == tasks[i]
    IN  /\ At(i, "send_message", 19)
        /\ last_msg_time' = TableSet(last_msg_time, t.sid, 0)
        /\ IF Throttled(t.now, 0)
           THEN Return(i, <<>>)
           ELSE Goto(i, [t EXCEPT !.pc = 69], <<>>)
        /\ UNCHANGED <<users, objects, message_history, connected, accepted_log,
                       connect_seq>>

\* last_msg_time[request.sid] = now
on_send_message_L69(i) ==
    LET t == tasks[i]
    IN  /\ At(i, "send_message", 69)
        /\ last_msg_time' = RecordSend(last_msg_time, t.sid, t.now)
        /\ Goto(i, [t EXCEPT !.pc = 71], <<>>)
        /\ UNCHANGED <<users, objects, message_history, connected, accepted_log,
                       connect_seq>>

\* lines 71-77: user = _get_user(request.sid); if not user: return;
\* msg_text = (data.get("message") or "").strip(); if not msg_text: return
on_send_message_L71(i) ==
    LET t == tasks[i]
        user == _get_user(t.sid)
        msg_text == StripField(t.data.message)
    IN  /\ At(i, "send_message", 71)
        /\ IF user = None \/ msg_text = Str_empty
           THEN Return(i, <<>>)
           ELSE Goto(i, [t EXCEPT !.pc = 79, !.user = user,
                                  !.msg_text = Some(msg_text)], <<>>)
        /\ UNCHANGED users
        /\ Heap(objects)
        /\ UNCHANGED <<message_history, last_msg_time, connected, accepted_log,
                       connect_seq>>

\* lines 80-81: user["username"] and user["avatar"] are read
on_send_message_L79(i) ==
    LET t == tasks[i]
        user == Deref(objects, t.user[1])
    IN  /\ At(i, "send_message", 79)
        /\ Goto(i, [t EXCEPT !.pc = 83, !.username = Some(user.username),
                             !.avatar_url = Some(user.avatar)], <<>>)
        /\ UNCHANGED <<users, objects, message_history, last_msg_time, connected,
                       accepted_log, connect_seq>>

\* line 83, _now_iso(), and the assignment of line 79:
\* message_data = {username, avatar, message, timestamp}
on_send_message_L83(i) ==
    LET t == tasks[i]
        message_data == [username |-> t.username[1], avatar |-> t.avatar_url[1],
                         message |-> t.msg_text[1], timestamp |-> _now_iso(now)]
    IN  /\ At(i, "send_message", 83)
        /\ Goto(i, [t EXCEPT !.pc = 85, !.message_data = Some(message_data)], <<>>)
        /\ UNCHANGED <<users, objects, message_history, last_msg_time, connected,
                       accepted_log, connect_seq>>

\* message_history.append(message_data)
on_send_message_L85(i) ==
    LET t == tasks[i]
    IN  /\ At(i, "send_message", 85)
        /\ message_history' = DequeAppend(message_history, t.message_data[1])
        /\ accepted_log' = Append(accepted_log,
                                  [sid |-> t.sid, at |-> t.now, msg |-> t.message_data[1]])
        /\ Goto(i, [t EXCEPT !.pc = 86], <<>>)
        /\ UNCHANGED <<users, objects, last_msg_time, connected, connect_seq>>

\* emit("new_message", message_data, broadcast=True)
on_send_message_L86(i) ==
    LET t == tasks[i]
    IN  /\ At(i, "send_message", 86)
        /\ Return(i, << Event("new_message", t.message_data[1],
                              ToAll(connected, t.sid), t.sid) >>)
        /\ UNCHANGED users
        /\ Heap(objects)
        /\ UNCHANGED <<message_history, last_msg_time, connected, accepted_log,
                       connect_seq>>

on_send_message(i) ==
    \/ on_send_message_L66(i)
    \/ on_send_message_L67(i)
    \/ on_send_message_L19(i)
    \/ on_send_message_L69(i)
    \/ on_send_message_L71(i)
    \/ on_send_message_L79(i)
    \/ on_send_message_L83(i)
    \/ on_send_message_L85(i)
    \/ on_send_message_L86(i)

\* -------------------------------------------------------- on_update_username
\* user = _get_user(request.sid); if not user: return
on_update_username_L90(i) ==
    LET t == tasks[i]
        user == _get_user(t.sid)
    IN  /\ At(i, "update_username", 90)
        /\ IF user = None
           THEN Return(i, <<>>)
           ELSE Goto(i, [t EXCEPT !.pc = 93, !.user = user], <<>>)
        /\ UNCHANGED users
        /\ Heap(objects)
        /\ UNCHANGED <<message_history, last_msg_time, connected, accepted_log,
                       connect_seq>>

\* lines 93-96: old_username = user["username"]; new_username = ...strip();
\* if not new_username or new_username == old_username: return
on_update_username_L93(i) ==
    LET t == tasks[i]
        old_username == Deref(objects, t.user[1]).username
        new_username == StripField(t.data.username)
    IN  /\ At(i, "update_username", 93)
        /\ IF new_username = Str_empty \/ new_username = old_username
           THEN Return(i, <<>>)
           ELSE Goto(i, [t EXCEPT !.pc = 99, !.old_username = Some(old_username),
                                  !.new_username = Some(new_username)], <<>>)
        /\ UNCHANGED users
        /\ Heap(objects)
        /\ UNCHANGED <<message_history, last_msg_time, connected, accepted_log,
                       connect_seq>>

\* user["username"] = new_username
on_update_username_L99(i) ==
    LET t == tasks[i]
    IN  /\ At(i, "update_username", 99)
        /\ Goto(i, [t EXCEPT !.pc = 100], <<>>)
        /\ UNCHANGED users
        /\ Heap(SetUsername(objects, t.user[1], t.new_username[1]))
        /\ UNCHANGED <<message_history, last_msg_time, connected, accepted_log,
                       connect_seq>>

\* line 100, the arguments: user.get("gender") is read and _build_avatar called
on_update_username_L100(i) ==
    LET t == tasks[i]
        gender == Deref(objects, t.user[1]).gender
    IN  /\ At(i, "update_username", 100)
        /\ Goto(i, [t EXCEPT !.pc = 28, !.gender = Some(gender)], <<>>)
        /\ UNCHANGED users
        /\ Heap(objects)
        /\ UNCHANGED <<message_history, last_msg_time, connected, accepted_log,
                       connect_seq>>

\* line 100, the assignment: user["avatar"] = <what _build_avatar returned>
on_update_username_L100_store(i) ==
    LET t == tasks[i]
    IN  /\ At(i, "update_username", 28)
        /\ Goto(i, [t EXCEPT !.pc = 102], <<>>)
        /\ UNCHANGED users
        /\ Heap(SetAvatar(objects, t.user[1],
                          _build_avatar(t.new_username[1], t.gender, t.gender[1])))
        /\ UNCHANGED <<message_history, last_msg_time, connected, accepted_log,
                       connect_seq>>

\* the argument of the emit of lines 102-110:
\* {old_username, new_username, "avatar": user["avatar"]}
on_update_username_L102(i) ==
    LET t == tasks[i]
    IN  /\ At(i, "update_username", 102)
        /\ t.args = None
        /\ Goto(i, [t EXCEPT !.args =
                        Some([old_username |-> t.old_username[1],
                              new_username |-> t.new_username[1],
                              avatar |-> Deref(objects, t.user[1]).avatar])],
                <<>>)
        /\ UNCHANGED <<users, objects, message_history, last_msg_time, connected,
                       accepted_log, connect_seq>>

\* emit("username_updated", <the argument>, broadcast=True)
on_update_username_L102_emit(i) ==
    LET t == tasks[i]
    IN  /\ At(i, "update_username", 102)
        /\ t.args # None
        /\ Goto(i, [t EXCEPT !.pc = 35, !.args = None],
                << Event("username_updated", t.args[1],
                         ToAll(connected, t.sid), t.sid) >>)
        /\ UNCHANGED <<users, objects, message_history, last_msg_time, connected,
                       accepted_log, connect_seq>>

\* emit("online_users_list", {"users": <the list returned>}, broadcast=True)
on_update_username_L111(i) ==
    LET t == tasks[i]
    IN  /\ At(i, "update_username", 111)
        /\ Return(i, << Event("online_users_list", [users |-> t.payload],
                              ToAll(connected, t.sid), t.sid) >>)
        /\ UNCHANGED users
        /\ Heap(objects)
        /\ UNCHANGED <<message_history, last_msg_time, connected, accepted_log,
                       connect_seq>>

on_update_username(i) ==
    \/ on_update_username_L90(i)
    \/ on_update_username_L93(i)
    \/ on_update_username_L99(i)
    \/ on_update_username_L100(i)
    \/ on_update_username_L100_store(i)
    \/ on_update_username_L102(i)
    \/ on_update_username_L102_emit(i)
    \/ _online_users_payload(i)
    \/ on_update_username_L111(i)

\* --------------------------------------------------- on_update_avatar_gender
\* mutation of ValidGender: any value that is present passes
ValidGender_any(gender) == gender # None

\* gender in ("boy", "girl")
ValidGender(gender) == gender \in {Some(Str_boy), Some(Str_girl)}

\* lines 117-122: user = _get_user(request.sid); if not user: return;
\* gender = data.get("gender"); if gender not in ("boy", "girl"): return
on_update_avatar_gender_L117(i) ==
    LET t == tasks[i]
        user == _get_user(t.sid)
        gender == t.data.gender
    IN  /\ At(i, "update_avatar_gender", 117)
        /\ IF user = None \/ ~ValidGender(gender)
           THEN Return(i, <<>>)
           ELSE Goto(i, [t EXCEPT !.pc = 124, !.user = user, !.gender = gender], <<>>)
        /\ UNCHANGED users
        /\ Heap(objects)
        /\ UNCHANGED <<message_history, last_msg_time, connected, accepted_log,
                       connect_seq>>

\* user["gender"] = gender
on_update_avatar_gender_L124(i) ==
    LET t == tasks[i]
    IN  /\ At(i, "update_avatar_gender", 124)
        /\ Goto(i, [t EXCEPT !.pc = 125], <<>>)
        /\ UNCHANGED users
        /\ Heap(SetGender(objects, t.user[1], t.gender[1]))
        /\ UNCHANGED <<message_history, last_msg_time, connected, accepted_log,
                       connect_seq>>

\* line 125, the arguments: user["username"] is read and _build_avatar called
on_update_avatar_gender_L125(i) ==
    LET t == tasks[i]
        username == Deref(objects, t.user[1]).username
    IN  /\ At(i, "update_avatar_gender", 125)
        /\ Goto(i, [t EXCEPT !.pc = 28, !.username = Some(username)], <<>>)
        /\ UNCHANGED users
        /\ Heap(objects)
        /\ UNCHANGED <<message_history, last_msg_time, connected, accepted_log,
                       connect_seq>>

\* line 125, the assignment: user["avatar"] = <what _build_avatar returned>
on_update_avatar_gender_L125_store(i) ==
    LET t == tasks[i]
    IN  /\ At(i, "update_avatar_gender", 28)
        /\ Goto(i, [t EXCEPT !.pc = 127], <<>>)
        /\ UNCHANGED users
        /\ Heap(SetAvatar(objects, t.user[1],
                          _build_avatar(t.username[1], t.gender, t.gender[1])))
        /\ UNCHANGED <<message_history, last_msg_time, connected, accepted_log,
                       connect_seq>>

\* the argument of the emit of lines 127-131:
\* {"username": user["username"], "avatar": user["avatar"]}
on_update_avatar_gender_L127(i) ==
    LET t == tasks[i]
        user == Deref(objects, t.user[1])
    IN  /\ At(i, "update_avatar_gender", 127)
        /\ t.args = None
        /\ Goto(i, [t EXCEPT !.args =
                        Some([username |-> user.username, avatar |-> user.avatar])],
                <<>>)
        /\ UNCHANGED <<users, objects, message_history, last_msg_time, connected,
                       accepted_log, connect_seq>>

\* emit("avatar_updated", <the argument>, broadcast=True)
on_update_avatar_gender_L127_emit(i) ==
    LET t == tasks[i]
    IN  /\ At(i, "update_avatar_gender", 127)
        /\ t.args # None
        /\ Goto(i, [t EXCEPT !.pc = 35, !.args = None],
                << Event("avatar_updated", t.args[1],
                         ToAll(connected, t.sid), t.sid) >>)
        /\ UNCHANGED <<users, objects, message_history, last_msg_time, connected,
                       accepted_log, connect_seq>>

\* emit("online_users_list", {"users": <the list returned>}, broadcast=True)
on_update_avatar_gender_L132(i) ==
    LET t == tasks[i]
    IN  /\ At(i, "update_avatar_gender", 132)
        /\ Return(i, << Event("online_users_list", [users |-> t.payload],
                              ToAll(connected, t.sid), t.sid) >>)
        /\ UNCHANGED users
        /\ Heap(objects)
        /\ UNCHANGED <<message_history, last_msg_time, connected, accepted_log,
                       connect_seq>>

on_update_avatar_gender(i) ==
    \/ on_update_avatar_gender_L117(i)
    \/ on_update_avatar_gender_L124(i)
    \/ on_update_avatar_gender_L125(i)
    \/ on_update_avatar_gender_L125_store(i)
    \/ on_update_avatar_gender_L127(i)
    \/ on_update_avatar_gender_L127_emit(i)
    \/ _online_users_payload(i)
    \/ on_update_avatar_gender_L132(i)

\* ------------------------------------------------------------------ on_typing
\* bool(data.get("isTyping"))
Bool(opt) == opt # None /\ opt[1] = TRUE

\* user = _get_user(request.sid); if not user: return
on_typing_L138(i) ==
    LET t == tasks[i]
        user == _get_user(t.sid)
    IN  /\ At(i, "typing", 138)
        /\ IF user = None
           THEN Return(i, <<>>)
           ELSE Goto(i, [t EXCEPT !.pc = 141, !.user = user], <<>>)
        /\ UNCHANGED users
        /\ Heap(objects)
        /\ UNCHANGED <<message_history, last_msg_time, connected, accepted_log,
                       connect_seq>>

\* the argument of the emit of lines 141-146:
\* {"username": user["username"], "isTyping": bool(data.get("isTyping"))}
on_typing_L141(i) ==
    LET t == tasks[i]
    IN  /\ At(i, "typing", 141)
        /\ t.args = None
        /\ Goto(i, [t EXCEPT !.args =
                        Some([username |-> Deref(objects, t.user[1]).username,
                              isTyping |-> Bool(t.data.isTyping)])],
                <<>>)
        /\ UNCHANGED <<users, objects, message_history, last_msg_time, connected,
                       accepted_log, connect_seq>>

\* emit("user_typing", <the argument>, broadcast=True, include_self=False)
on_typing_L141_emit(i) ==
    LET t == tasks[i]
    IN  /\ At(i, "typing", 141)
        /\ t.args # None
        /\ Return(i, << Event("user_typing", t.args[1],
                              ToOthers(connected, t.sid), t.sid) >>)
        /\ UNCHANGED users
        /\ Heap(objects)
        /\ UNCHANGED <<message_history, last_msg_time, connected, accepted_log,
                       connect_seq>>

on_typing(i) ==
    \/ on_typing_L138(i)
    \/ on_typing_L141(i)
    \/ on_typing_L141_emit(i)

\* --------------------------------------------------------- on_private_message
\* mutation of Matches: every record matches
Matches_any(username, name) == TRUE

\* line 161: u["username"] == target_username
Matches(username, name) == username = name

\* lines 149-158: sender = users.get(request.sid); if not sender: return;
\* target_username, msg_text; if not target_username or not msg_text: return
on_private_message_L149(i) ==
    LET t == tasks[i]
        sender == _get_user(t.sid)
        target_username == t.data.to
        msg_text == StripField(t.data.message)
    IN  /\ At(i, "send_private_message", 149)
        /\ IF \/ sender = None
              \/ target_username = None \/ target_username = Some(Str_empty)
              \/ msg_text = Str_empty
           THEN Return(i, <<>>)
           ELSE Goto(i, [t EXCEPT !.pc = 160, !.user = sender,
                                  !.msg_text = Some(msg_text)], <<>>)
        /\ UNCHANGED users
        /\ Heap(objects)
        /\ UNCHANGED <<message_history, last_msg_time, connected, accepted_log,
                       connect_seq>>

\* lines 160-166, one iteration of the loop over users.items() (the first
\* one creates the iterator): the first record whose username is the target
\* name ends the loop; when the loop ends without one the handler returns
on_private_message_L160(i) ==
    LET t == tasks[i]
        it == IF t.it = None THEN DictIter(users) ELSE t.it[1]
        r == DictIterNext(users, it)
        k == NextLive(users, it.pos)
        u == Deref(objects, users[k].ref)
        held == IF t.it = None THEN Held(t.data.to[1]) ELSE t.held
    IN  /\ At(i, "send_private_message", 160)
        /\ CASE r = "RuntimeError" -> Raise(i)
             [] r = "StopIteration" -> Return(i, <<>>)
             [] r = "value" ->
                    IF Matches(u.username, t.data.to[1])
                    THEN Goto(i, [t EXCEPT !.pc = 168, !.it = None, !.held = held,
                                           !.target_sid = Some(users[k].sid)], <<>>)
                    ELSE Goto(i, [t EXCEPT !.it = Some(DictIterAt(it, k)),
                                           !.held = held], <<>>)
        /\ UNCHANGED users
        /\ Heap(objects)
        /\ UNCHANGED <<message_history, last_msg_time, connected, accepted_log,
                       connect_seq>>

\* lines 169 and 171: sender["username"] and sender["avatar"] are read
on_private_message_L168(i) ==
    LET t == tasks[i]
        sender == Deref(objects, t.user[1])
    IN  /\ At(i, "send_private_message", 168)
        /\ Goto(i, [t EXCEPT !.pc = 173, !.username = Some(sender.username),
                             !.avatar_url = Some(sender.avatar)], <<>>)
        /\ UNCHANGED <<users, objects, message_history, last_msg_time, connected,
                       accepted_log, connect_seq>>

\* line 173, _now_iso(), and the assignment of line 168:
\* message_data = {from, to, avatar, message, timestamp}
on_private_message_L173(i) ==
    LET t == tasks[i]
        message_data == [from |-> t.username[1], to |-> t.data.to[1],
                         avatar |-> t.avatar_url[1], message |-> t.msg_text[1],
                         timestamp |-> _now_iso(now)]
    IN  /\ At(i, "send_private_message", 173)
        /\ Goto(i, [t EXCEPT !.pc = 177, !.message_data = Some(message_data)], <<>>)
        /\ UNCHANGED <<users, objects, message_history, last_msg_time, connected,
                       accepted_log, connect_seq>>

\* emit("private_message", message_data, room=target_sid)
on_private_message_L177(i) ==
    LET t == tasks[i]
    IN  /\ At(i, "send_private_message", 177)
        /\ Goto(i, [t EXCEPT !.pc = 179],
                << Event("private_message", t.message_data[1],
                         ToRoom(connected, t.target_sid[1]), t.sid) >>)
        /\ UNCHANGED <<users, objects, message_history, last_msg_time, connected,
                       accepted_log, connect_seq>>

\* emit("private_message", message_data, room=request.sid)
on_private_message_L179(i) ==
    LET t == tasks[i]
    IN  /\ At(i, "send_private_message", 179)
        /\ Return(i, << Event("private_message", t.message_data[1],
                              ToRoom(connected, t.sid), t.sid) >>)
        /\ UNCHANGED users
        /\ Heap(objects)
        /\ UNCHANGED <<message_history, last_msg_time, connected, accepted_log,
                       connect_seq>>

on_private_message(i) ==
    \/ on_private_message_L149(i)
    \/ on_private_message_L160(i)
    \/ on_private_message_L168(i)
    \/ on_private_message_L173(i)
    \/ on_private_message_L177(i)
    \/ on_private_message_L179(i)

\* --------------------------------------------------------------------- clock
\* the clock moves on by d; no handler runs
Advance(d, limit) ==
    /\ now + d <= StartTime + limit
    /\ now' = now + d
    /\ UNCHANGED <<users, objects, message_history, last_msg_time, connected, tasks,
                   accepted_log, connect_seq, emitted>>

\* ------------------------------------------------------------ the gateway

\* a connect handler of sid is in flight
Connecting(sid) == \E i \in Slots : tasks[i].op = "connect" /\ tasks[i].sid = sid

\* sids the gateway has already handed out
UsedSids ==
    {connect_seq[k] : k \in 1..Len(connect_seq)}
        \cup {tasks[i].sid : i \in {j \in Slots : tasks[j].op = "connect"}}

\* a client connects: the server puts it in the namespace and starts on_connect
StartConnect(S) ==
    \E sid \in S \ UsedSids :
        /\ Start(Task("connect", sid, NoData, 41))
        /\ connected' = connected \cup {sid}

\* an event of a client arrives; the client sends none before its connect
\* handler has returned
StartEvent(op, sid, data, pc) ==
    /\ ~Connecting(sid)
    /\ Start(Task(op, sid, data, pc))
    /\ UNCHANGED connected

StartDisconnect(S) == \E sid \in S : StartEvent("disconnect", sid, NoData, 57)

\* send_message handlers in flight that can still append
Pending ==
    Cardinality({i \in Slots : /\ tasks[i].op = "send_message"
                               /\ tasks[i].pc \in {66, 67, 19, 69, 71, 79, 83}
                               /\ StripField(tasks[i].data.message) # Str_empty})

\* sends of every kind, as long as no more than max messages can get accepted
StartSendMessage(S, inputs, max) ==
    \E sid \in S, m \in inputs :
        /\ StripField(m) # Str_empty => Len(accepted_log) + Pending < max
        /\ StartEvent("send_message", sid, [message |-> m], 66)

StartUpdateUsername(S, inputs) ==
    \E sid \in S, u \in inputs : StartEvent("update_username", sid, [username |-> u], 90)

StartUpdateAvatarGender(S, inputs) ==
    \E sid \in S, g \in inputs :
        StartEvent("update_avatar_gender", sid, [gender |-> g], 117)

StartTyping(S, inputs) ==
    \E sid \in S, b \in inputs : StartEvent("typing", sid, [isTyping |-> b], 138)

StartPrivateMessage(S, inputs) ==
    \E sid \in S, d \in inputs : StartEvent("send_private_message", sid, d, 149)

\* a handler in flight executes its next statement
Connect(numbers, genders) == \E i \in Slots : on_connect(i, numbers, genders)
Disconnect == \E i \in Slots : on_disconnect(i)
SendMessage == \E i \in Slots : on_send_message(i)
UpdateUsername == \E i \in Slots : on_update_username(i)
UpdateAvatarGender == \E i \in Slots : on_update_avatar_gender(i)
Typing == \E i \in Slots : on_typing(i)
PrivateMessage == \E i \in Slots : on_private_message(i)

\* the server ends a task
End == \E i \in Slots : Finish(i)

Tick(steps, limit) == \E d \in steps : Advance(d, limit)

\* ----------------------------------------------------------- specifications
\* One connection joins and sends one message after the other, each a
\* throttle interval after the one before, until the history has overflowed.
HistoryTick ==
    /\ Busy = {}
    /\ accepted_log # <<>>
    /\ accepted_log[Len(accepted_log)].at = now
    /\ Advance(MIN_SECONDS_BETWEEN_MSGS, HistoryMsgs * MIN_SECONDS_BETWEEN_MSGS)

NextHistory ==
    \/ StartConnect(FirstSid)
    \/ Connect({1000}, {Str_boy})
    \/ (Busy = {} /\ StartSendMessage(FirstSid, {Some(Str_hi_padded)}, HistoryMsgs))
    \/ SendMessage
    \/ HistoryTick
    \/ End

SpecHistory == Init /\ [][NextHistory]_vars

\* One connection joins and sends public messages of every kind, also more
\* than one at a time, while the clock moves on in steps of half the throttle
\* interval.
NextChat ==
    \/ StartConnect(FirstSid)
    \/ Connect({1000}, {Str_boy})
    \/ StartSendMessage(connected, {Some(Str_blank), Some(Str_hi_padded)}, ChatMsgs)
    \/ SendMessage
    \/ Tick(ChatSteps, ChatElapsed)
    \/ End

SpecChat == Init /\ [][NextChat]_vars

\* Two connections join and leave; meanwhile the first one changes its gender
\* and the other one renames itself.
NextPresence ==
    \/ StartConnect(SIDS)
    \/ Connect({1000}, {Str_boy})
    \/ StartDisconnect(connected)
    \/ Disconnect
    \/ StartUpdateUsername(connected \ FirstSid, {Some(Str_bob_padded)})
    \/ UpdateUsername
    \/ StartUpdateAvatarGender(connected \cap FirstSid, {Some(Str_girl)})
    \/ UpdateAvatarGender
    \/ End

SpecPresence == Init /\ [][NextPresence]_vars

ProfileNames == {Some(Str_bob_padded), Some(Str_hi_padded)}
ProfileGenders == {None, Some(Str_other), Some(Str_girl)}

\* One connection joins, renames itself and changes its gender, also with
\* more than one request at a time.
NextProfile ==
    \/ StartConnect(FirstSid)
    \/ Connect({1000}, {Str_boy})
    \/ StartUpdateUsername(connected, ProfileNames)
    \/ UpdateUsername
    \/ StartUpdateAvatarGender(connected, ProfileGenders)
    \/ UpdateAvatarGender
    \/ End

SpecProfile == Init /\ [][NextProfile]_vars

PrivateInputs ==
    {[to |-> Some(Str_bob), message |-> Some(Str_hi_padded)],
     [to |-> Some(GeneratedName(1000)), message |-> Some(Str_hi_padded)]}

\* Three connections join and rename themselves, and the first one sends
\* private messages.
NextDirect ==
    \/ StartConnect(MoreSids)
    \/ Connect({1000}, {Str_boy})
    \/ StartUpdateUsername(connected \cap SIDS, {Some(Str_bob_padded)})
    \/ UpdateUsername
    \/ StartPrivateMessage(connected \cap FirstSid, PrivateInputs)
    \/ PrivateMessage
    \/ End

SpecDirect == Init /\ [][NextDirect]_vars

\* Events of every kind arrive for an id before it has connected, while it
\* is connected and after it has left.
NextUnknown ==
    \/ StartConnect(FirstSid)
    \/ Connect({1000}, {Str_boy})
    \/ StartDisconnect(FirstSid)
    \/ Disconnect
    \/ StartSendMessage(FirstSid, {Some(Str_hi_padded)}, MaxMsgs)
    \/ SendMessage
    \/ StartUpdateUsername(FirstSid, {Some(Str_bob_padded)})
    \/ UpdateUsername
    \/ StartUpdateAvatarGender(FirstSid, {Some(Str_girl)})
    \/ UpdateAvatarGender
    \/ StartTyping(FirstSid, {Some(TRUE)})
    \/ Typing
    \/ StartPrivateMessage(FirstSid, {[to |-> Some(Str_bob), message |-> Some(Str_hi_padded)]})
    \/ PrivateMessage
    \/ End

Spec == Init /\ [][NextUnknown]_vars

\* Connections join, type and leave, and the first one renames itself.
NextTyping ==
    \/ StartConnect(MoreSids)
    \/ Connect({1000}, {Str_boy})
    \/ StartTyping(connected, {None, Some(TRUE)})
    \/ Typing
    \/ StartUpdateUsername(connected \cap FirstSid, {Some(Str_bob_padded)})
    \/ UpdateUsername
    \/ StartDisconnect(connected \cap FirstSid)
    \/ Disconnect
    \/ End

SpecTyping == Init /\ [][NextTyping]_vars

\* connect handlers in flight
Connects == Cardinality({i \in Slots : tasks[i].op = "connect"})

\* the gateway hands out an id that is in the identity store already
StartReconnect(S) ==
    \E sid \in (S \cap Keys(users)) :
        /\ ~Connecting(sid)
        /\ Len(connect_seq) + Connects < MaxConnects
        /\ Start(Task("connect", sid, NoData, 41))
        /\ connected' = connected \cup {sid}

\* One connection joins, renames itself and is handed out again.
NextReconnect ==
    \/ StartConnect(FirstSid)
    \/ StartReconnect(FirstSid)
    \/ Connect(UserNumbers, {Str_boy, Str_girl})
    \/ StartUpdateUsername(connected, {Some(Str_bob_padded)})
    \/ UpdateUsername
    \/ End

SpecReconnect == Init /\ [][NextReconnect]_vars

\* update_username events with names of every kind
RenameInputs ==
    {None, Some(Str_empty), Some(Str_blank), Some(Str_bob), Some(Str_bob_padded),
     Some(Str_hi_padded)}

\* One connection joins and asks for names of every kind.
NextRename ==
    \/ StartConnect(FirstSid)
    \/ Connect({1000}, Genders)
    \/ StartUpdateUsername(connected, RenameInputs)
    \/ UpdateUsername
    \/ End

SpecRename == Init /\ [][NextRename]_vars

\* Two connections join and send and the first one leaves, while the clock
\* stands still.
NextRace ==
    \/ StartConnect(SIDS)
    \/ Connect(UserNumbers, {Str_boy})
    \/ StartSendMessage(connected, {Some(Str_hi_padded)}, MaxMsgs)
    \/ SendMessage
    \/ StartDisconnect(connected \cap FirstSid)
    \/ Disconnect
    \/ End

SpecRace == Init /\ [][NextRace]_vars

\* ------------------------------------------------------------- properties
Min(a, b) == IF a <= b THEN a ELSE b

\* the last n elements of s
LastN(s, n) == SubSeq(s, Len(s) - n + 1, Len(s))

\* the public messages appended so far, in order
AcceptedMsgs == [k \in 1..Len(accepted_log) |-> accepted_log[k].msg]

\* the handler in slot i executes a statement in this step
Ran(i) == tasks[i] # Idle /\ tasks'[i] # Idle /\ tasks'[i] # tasks[i]

\* the events that statement emits
Emits(i) == SubSeq(tasks'[i].out, Len(tasks[i].out) + 1, Len(tasks'[i].out))

\* the handler in slot i returns in this step
Returns(i) == tasks'[i].pc = 0 /\ ~tasks'[i].raised

\* the handler in slot i ends with an exception in this step
Raises(i) == tasks'[i].pc = 0 /\ tasks'[i].raised

\* the identity store by value: the keys in order, each with its record
Dict ==
    LET d == SelectSeq(users, LAMBDA e : e # Deleted)
    IN  [k \in 1..Len(d) |-> [sid |-> d[k].sid, user |-> Deref(objects, d[k].ref)]]

\* what _online_users_payload() returns when nothing else runs meanwhile
Snapshot == [k \in 1..Len(Dict) |-> [username |-> Dict[k].user.username,
                                      avatar |-> Dict[k].user.avatar]]

\* the names the records in the store carry
Names == {Dict[k].user.username : k \in 1..Len(Dict)}

\* the records the search of the handler in slot i has passed
Passed(i) ==
    {k \in Live(users) : tasks[i].it # None /\ k <= tasks[i].it[1].pos}

\* the record of sid in the store
UserOf(sid) == Deref(objects, users[IndexOf(users, sid)].ref)

\* what last_msg_time[sid] evaluates to
LastSend(sid) == IF sid \in DOMAIN last_msg_time THEN last_msg_time[sid] ELSE 0

\* the store, the history and the throttle readings stay as they are
SharedUnchanged ==
    /\ Dict' = Dict
    /\ message_history' = message_history
    /\ \A s \in MoreSids : LastSend(s)' = LastSend(s)

\* a handler that has returned is still in slot i
Returned(i, op) == tasks[i].op = op /\ tasks[i].pc = 0 /\ ~tasks[i].raised

\* C1: the history buffer always holds the most recent min(k, 150) accepted
\* public messages, oldest first, where k is the number accepted so far; so
\* it never exceeds 150 entries and a full buffer loses only its oldest entry.
C1_HistoryIsMostRecentAccepted ==
    /\ Len(message_history) <= MAX_HISTORY
    /\ message_history = LastN(AcceptedMsgs, Min(Len(accepted_log), MAX_HISTORY))

\* two messages more than the buffer holds were accepted: the first two are gone
C1_Witness ==
    /\ Len(accepted_log) = MAX_HISTORY + 2
    /\ Len(message_history) = MAX_HISTORY
    /\ message_history[1] = accepted_log[3].msg
    /\ message_history[1] # accepted_log[1].msg
    /\ message_history[MAX_HISTORY] = accepted_log[MAX_HISTORY + 2].msg

\* C2: of two public sends with non-empty bodies from one connection, the
\* second is not appended or broadcast when it arrives less than 0.25 s after
\* the first accepted one: any two accepted sends of a connection arrived at
\* least 0.25 s apart.
C2_ThrottlePerConnection ==
    \A j, k \in 1..Len(accepted_log) :
        (j < k /\ accepted_log[j].sid = accepted_log[k].sid)
            => accepted_log[k].at - accepted_log[j].at >= MIN_SECONDS_BETWEEN_MSGS

\* C3: every online_users_list broadcast carries the {username, avatar} list
\* of exactly the identities in the store at the moment of the emit, in store
\* order, and goes to every connection.
C3_PresenceIsCurrent ==
    [][\A i \in Slots : Ran(i) =>
        \A k \in 1..Len(Emits(i)) :
            LET e == Emits(i)[k]
            IN  e.event = "online_users_list" =>
                    (e.to = connected /\ e.payload.users = Snapshot)
      ]_vars

\* C4: a private message with a body from a connection in the store to a
\* name that a record in the store carries is emitted twice with one and the
\* same payload {from, to, avatar, message, timestamp}: first to the room of
\* the target, then to the room of the sender; so the handler does not end
\* while it looks for the target.
C4_PrivateDeliveredTwice ==
    [][\A i \in Slots : (Ran(i) /\ tasks[i].op = "send_private_message") =>
        LET t == tasks[i]
        IN  /\ t.pc \in {149, 160, 168, 173} => Emits(i) = <<>>
            /\ (/\ t.pc = 160
                /\ t.sid \in Keys(users)
                /\ t.held
                /\ t.data.to[1] \in Names) => ~Raises(i)
            /\ t.pc = 177 =>
                   /\ Len(Emits(i)) = 1
                   /\ Emits(i)[1].event = "private_message"
                   /\ Emits(i)[1].payload = t.message_data[1]
                   /\ Emits(i)[1].to = connected \cap {t.target_sid[1]}
            /\ t.pc = 179 =>
                   /\ Len(Emits(i)) = 1
                   /\ Emits(i)[1].event = "private_message"
                   /\ Emits(i)[1].payload = t.out[1].payload
                   /\ Emits(i)[1].to = connected \cap {t.sid}
                   /\ Returns(i)
      ]_vars

\* C5: a private message to a name that no record in the store carries
\* while the handler looks for it is dropped: no iteration of the search
\* finds a target, the handler ends with nothing emitted to the sender or
\* anyone else, and no step of the handler changes the store, the history or
\* the throttle table.
C5_PrivateToAbsentNameIsDropped ==
    [][\A i \in Slots : (Ran(i) /\ tasks[i].op = "send_private_message") =>
        /\ SharedUnchanged
        /\ tasks[i].pc \in {149, 160} => Emits(i) = <<>>
        /\ (tasks[i].pc = 160 /\ ~Held(tasks[i].data.to[1]))
               => /\ tasks'[i].target_sid = None
                  /\ tasks'[i].pc \in {0, 160}
                  /\ tasks'[i].out = <<>>
      ]_vars

\* both connections have renamed themselves to bob; a message to the
\* generated name they had came back with nothing emitted
C5_Witness ==
    \E i \in Slots :
        /\ Returned(i, "send_private_message")
        /\ tasks[i].data.to = Some(GeneratedName(1000))
        /\ tasks[i].out = <<>>
        /\ tasks[i].sid \in Keys(users)
        /\ Len(Dict) = 2
        /\ Names = {Str_bob}

\* C6: on_connect puts the identity into the store and then emits, in this
\* order, set_username and message_history (the whole history buffer, oldest
\* first) to the new connection only, then user_joined {username, avatar}
\* and online_users_list to every connection, the new one included; so the
\* handler does not end before the list is out.
C6_ConnectEmitsInOrder ==
    [][\A i \in Slots : (Ran(i) /\ tasks[i].op = "connect") =>
        LET t == tasks[i]
            e == Emits(i)[1]
        IN  /\ t.pc = 41 => (Emits(i) = <<>> /\ t.sid \in Keys(users'))
            /\ t.pc # 41 => (t.sid \in Keys(users) /\ t.sid \in connected)
            /\ t.pc = 47 =>
                   /\ t.out = <<>>
                   /\ Len(Emits(i)) = 1
                   /\ e.event = "set_username"
                   /\ e.payload = [username |-> UserOf(t.sid).username]
                   /\ e.to = {t.sid}
            /\ (t.pc = 48 /\ t.args = None) => (Emits(i) = <<>> /\ tasks'[i].pc = 48)
            /\ (t.pc = 48 /\ t.args # None) =>
                   /\ Len(t.out) = 1
                   /\ Len(Emits(i)) = 1
                   /\ e.event = "message_history"
                   /\ e.payload = [messages |-> message_history]
                   /\ e.to = {t.sid}
            /\ t.pc = 50 =>
                   /\ Len(t.out) = 2
                   /\ Len(Emits(i)) = 1
                   /\ e.event = "user_joined"
                   /\ e.payload = [username |-> UserOf(t.sid).username,
                                   avatar |-> UserOf(t.sid).avatar]
                   /\ e.to = connected
            /\ t.pc \in {35, 36} => (Emits(i) = <<>> /\ tasks'[i].pc # 0)
            /\ t.pc = 51 =>
                   /\ Len(t.out) = 3
                   /\ Len(Emits(i)) = 1
                   /\ e.event = "online_users_list"
                   /\ e.to = connected
                   /\ Returns(i)
      ]_vars

\* C7: a handler other than on_connect that runs for a connection id that
\* never was in the identity store emits nothing and leaves the store, the
\* history and the rate-limit table as they are.
C7_UnknownConnectionIsNoOp ==
    [][\A i \in Slots :
         (/\ Ran(i)
          /\ tasks[i].op # "connect"
          /\ \A k \in 1..Len(connect_seq) : connect_seq[k] # tasks[i].sid)
            => /\ Emits(i) = <<>>
               /\ users' = users
               /\ message_history' = message_history
               /\ last_msg_time' = last_msg_time
      ]_vars

\* C8: update_avatar_gender with a value other than "boy" and "girl", or
\* with none, returns at once: the store (the caller's gender and avatar
\* included) is unchanged and nothing is emitted, however often it is sent.
C8_InvalidGenderIsNoOp ==
    [][\A i \in Slots :
         (/\ Ran(i)
          /\ tasks[i].op = "update_avatar_gender"
          /\ tasks[i].data.gender \notin {Some(Str_boy), Some(Str_girl)})
            => /\ tasks[i].pc = 117
               /\ Returns(i)
               /\ Emits(i) = <<>>
               /\ tasks'[i].out = <<>>
               /\ SharedUnchanged
      ]_vars

\* a request for "other" and a request without gender have both returned
\* with nothing emitted
C8_Witness ==
    /\ Returned(1, "update_avatar_gender")
    /\ Returned(2, "update_avatar_gender")
    /\ tasks[1].data.gender = Some(Str_other)
    /\ tasks[2].data.gender = None
    /\ tasks[1].out = <<>>
    /\ tasks[2].out = <<>>
    /\ Keys(users) = {"c1"}
    /\ UserOf("c1").gender = Str_boy

\* the connection that connected earliest among those in the store whose
\* record carries the name
EarliestHolder(name) ==
    LET holders == {k \in 1..Len(connect_seq) :
                        /\ connect_seq[k] \in Keys(users)
                        /\ UserOf(connect_seq[k]).username = name}
    IN  connect_seq[CHOOSE k \in holders : \A j \in holders : k <= j]

\* C9: a rename to a name that another live connection holds goes through
\* like any other (the name is written and username_updated is broadcast),
\* a rename leaves the order of the store as it is, and a private message to
\* a name that is held resolves to the one holder that connected earliest
\* among the connections in the store.
C9_DuplicateNameFirstMatch ==
    [][\A i \in Slots : Ran(i) =>
        LET t == tasks[i]
        IN  /\ t.op = "update_username" =>
                   /\ users' = users
                   /\ (/\ t.pc = 93
                       /\ StripField(t.data.username) # Str_empty
                       /\ StripField(t.data.username) # Deref(objects, t.user[1]).username)
                          => tasks'[i].pc = 99
                   /\ t.pc = 99 =>
                          Deref(objects', t.user[1]).username = StripField(t.data.username)
                   /\ (t.pc = 102 /\ t.args # None) =>
                          /\ Len(Emits(i)) = 1
                          /\ Emits(i)[1].event = "username_updated"
                          /\ Emits(i)[1].payload.new_username = StripField(t.data.username)
                          /\ Emits(i)[1].to = connected
            /\ (/\ t.op = "send_private_message"
                /\ t.pc = 160
                /\ t.held
                /\ t.data.to[1] \in Names)
                   => /\ ~Raises(i)
                      /\ (/\ tasks'[i].target_sid # None
                          /\ \A k \in Passed(i) :
                                 Deref(objects, users[k].ref).username # t.data.to[1])
                             => tasks'[i].target_sid = Some(EarliestHolder(t.data.to[1]))
      ]_vars

\* C10: a typing event of a connection in the store is emitted as
\* user_typing {username: the name the sender's record carries when the event
\* is emitted, isTyping} to every connection but the sender; the handler
\* passes no throttle and changes neither the store, the history nor the
\* rate-limit table.
C10_TypingToOthersOnly ==
    [][\A i \in Slots : (Ran(i) /\ tasks[i].op = "typing") =>
        LET t == tasks[i]
        IN  /\ SharedUnchanged
            /\ last_msg_time' = last_msg_time
            /\ t.pc = 138 =>
                   /\ Emits(i) = <<>>
                   /\ t.sid \in Keys(users) => tasks'[i].pc = 141
            /\ (t.pc = 141 /\ t.args = None) =>
                   (Emits(i) = <<>> /\ tasks'[i].pc = 141)
            /\ (t.pc = 141 /\ t.args # None) =>
                   /\ Len(Emits(i)) = 1
                   /\ Emits(i)[1].event = "user_typing"
                   /\ Emits(i)[1].payload =
                          [username |-> Deref(objects, t.user[1]).username,
                           isTyping |-> (t.data.isTyping = Some(TRUE))]
                   /\ Emits(i)[1].to = connected \ {t.sid}
                   /\ t.sid \notin Emits(i)[1].to
      ]_vars

\* C11: a connect for a connection id that is in the identity store already
\* leaves the record of that id as it is.
C11_DuplicateConnectKeepsRecord ==
    [][\A i \in Slots :
         (Ran(i) /\ tasks[i].op = "connect" /\ tasks[i].sid \in Keys(users))
            => Dict' = Dict
      ]_vars

\* C12: the rate-limit table has entries only for connection ids that are
\* in the identity store.
C12_RateLimitEntriesOnlyForLiveSenders ==
    DOMAIN last_msg_time \subseteq Keys(users)

\* C13: update_username with a name that is empty, whitespace only or,
\* after trimming, the name the caller has when the handler compares them,
\* returns there: the store is unchanged and nothing is emitted.
C13_RenameToNothingOrSameIsNoOp ==
    [][\A i \in Slots :
         (/\ Ran(i)
          /\ tasks[i].op = "update_username"
          /\ tasks[i].pc = 93
          /\ \/ Strip(OrEmpty(tasks[i].data.username)) = Str_empty
             \/ Strip(OrEmpty(tasks[i].data.username))
                    = Deref(objects, tasks[i].user[1]).username)
            => /\ Returns(i)
               /\ Emits(i) = <<>>
               /\ tasks'[i].out = <<>>
               /\ SharedUnchanged
      ]_vars

\* the connection is called bob; a request for " bob " and a request for a
\* blank name have returned with nothing emitted
C13_Witness ==
    /\ Keys(users) = {"c1"}
    /\ UserOf("c1").username = Str_bob
    /\ \E i, j \in Slots :
           /\ Returned(i, "update_username")
           /\ Returned(j, "update_username")
           /\ tasks[i].data.username = Some(Str_bob_padded)
           /\ tasks[j].data.username = Some(Str_blank)
           /\ tasks[i].out = <<>>
           /\ tasks[j].out = <<>>

\* the user_left broadcasts of sid so far
LeftCount(sid) ==
    Cardinality({k \in 1..Len(emitted) :
                    emitted[k].event = "user_left" /\ emitted[k].sid = sid})

\* no handler is in flight: the keys of the store are the connections that
\* have connected and not disconnected, and each one that is gone has had one
\* user_left
Settled ==
    (\A i \in Slots : tasks[i] = Idle) =>
        /\ Keys(users) = connected
        /\ \A k \in 1..Len(connect_seq) :
               connect_seq[k] \notin connected => LeftCount(connect_seq[k]) = 1

\* C14: only the store write of on_connect adds a key to the identity store
\* and only the pop of on_disconnect removes one; user_left is broadcast at
\* most once per connection, and a disconnect that finds no record emits
\* nothing; when no handler is in flight the keys are the connections that
\* have connected and not disconnected, and each one that is gone has had
\* one user_left.
C14_StoreKeysAreLiveConnections ==
    [][/\ \A i \in Slots : Ran(i) =>
            LET t == tasks[i]
            IN  /\ (t.op = "connect" /\ t.pc = 41)
                       => Keys(users') = Keys(users) \cup {t.sid}
                /\ (t.op = "disconnect" /\ t.pc = 57)
                       => /\ Keys(users') = Keys(users) \ {t.sid}
                          /\ t.sid \notin Keys(users)
                                 => (Returns(i) /\ tasks'[i].out = <<>>)
                /\ ~(t.op = "connect" /\ t.pc = 41) /\ ~(t.op = "disconnect" /\ t.pc = 57)
                       => Keys(users') = Keys(users)
       /\ (\A i \in Slots : ~Ran(i)) => Keys(users') = Keys(users)
       /\ \A sid \in SIDS : LeftCount(sid)' <= 1
       /\ Settled'
      ]_vars

\* c1 was disconnected twice: the second handler found no record and
\* returned with nothing emitted, user_left went out once
C14_Witness ==
    \E i \in Slots :
        /\ Returned(i, "disconnect")
        /\ tasks[i].sid = "c1"
        /\ tasks[i].out = <<>>
        /\ LeftCount("c1") = 1
        /\ Keys(users) = {"c2"}

\* C15: when no handler is in flight, the avatar of every identity is the
\* avatar function of its display name and its gender.
C15_AvatarFollowsNameAndGender ==
    (\A i \in Slots : tasks[i] = Idle) =>
        \A k \in 1..Len(Dict) :
            LET u == Dict[k].user
            IN  u.avatar = _build_avatar(u.username, Some(u.gender), u.gender)

\* C16: an on_send_message in flight never writes the identity store, so a
\* record that on_disconnect has removed is not put back; and a handler that
\* looks the connection up after the removal returns there, appends nothing
\* to the history and broadcasts nothing.
C16_RemovalSurvivesInFlightSend ==
    [][\A i \in Slots : (Ran(i) /\ tasks[i].op = "send_message") =>
        LET t == tasks[i]
        IN  /\ users' = users
            /\ Dict' = Dict
            /\ (t.pc = 71 /\ t.sid \notin Keys(users))
                   => /\ Returns(i)
                      /\ tasks'[i].out = <<>>
                      /\ message_history' = message_history
            /\ (t.pc \in {66, 67, 19, 69} /\ t.sid \notin Keys(users))
                   => (Emits(i) = <<>> /\ message_history' = message_history)
      ]_vars

\* c1 has left while its message was in flight: the send passed the throttle,
\* found no record and returned; c2 is still there
C16_Witness ==
    \E i \in Slots :
        /\ Returned(i, "send_message")
        /\ tasks[i].sid = "c1"
        /\ tasks[i].out = <<>>
        /\ LeftCount("c1") = 1
        /\ Keys(users) = {"c2"}
        /\ LastSend("c1") = now
        /\ accepted_log = <<>>

\* C17 as stated: a public send with an empty or whitespace-only body leaves
\* the last-send time of its connection as it is.
C17_EmptySendKeepsWindow ==
    [][\A i \in Slots :
         (/\ Ran(i)
          /\ tasks[i].op = "send_message"
          /\ Strip(OrEmpty(tasks[i].data.message)) = Str_empty)
            => LastSend(tasks[i].sid)' = LastSend(tasks[i].sid)
      ]_vars

\* C17: a public send with an empty or whitespace-only body that passes the
\* throttle is dropped, nothing is appended or broadcast, but it consumes the
\* window: the time it read is recorded as the last-send time before the body
\* is looked at, and every send of the connection whose throttle test sees a
\* last-send time less than 0.25 s before its own is rejected.
C17_EmptySendConsumesWindow ==
    [][\A i \in Slots : (Ran(i) /\ tasks[i].op = "send_message") =>
        LET t == tasks[i]
        IN  /\ Strip(OrEmpty(t.data.message)) = Str_empty =>
                   /\ Emits(i) = <<>>
                   /\ message_history' = message_history
                   /\ t.pc = 69 => LastSend(t.sid)' = t.now
                   /\ t.pc = 71 => (Returns(i) /\ tasks'[i].out = <<>>)
            /\ (t.pc = 67 /\ t.now - LastSend(t.sid) < MIN_SECONDS_BETWEEN_MSGS)
                   => (Returns(i) /\ tasks'[i].out = <<>>)
      ]_vars

\* a blank send has recorded its time and a send of "hi" was rejected by the
\* throttle though no message has been accepted
C17_Witness ==
    \E i, j \in Slots :
        /\ Returned(i, "send_message")
        /\ Returned(j, "send_message")
        /\ tasks[i].data.message = Some(Str_blank)
        /\ tasks[j].data.message = Some(Str_hi_padded)
        /\ tasks[i].out = <<>>
        /\ tasks[j].out = <<>>
        /\ accepted_log = <<>>
        /\ LastSend("c1") = StartTime
        /\ now > StartTime

\* C18: a public send that the throttle rejects changes nothing: last-send
\* times, history and store stay as they are; and a send whose time is 0.25 s
\* or more after the last-send time of its connection passes the throttle, so
\* rejected sends do not extend the window.
C18_ThrottledSendChangesNothing ==
    [][\A i \in Slots : (Ran(i) /\ tasks[i].op = "send_message") =>
        LET t == tasks[i]
        IN  /\ t.pc = 66 => (SharedUnchanged /\ tasks'[i].now = now)
            /\ (t.pc = 67 /\ t.now - LastSend(t.sid) < MIN_SECONDS_BETWEEN_MSGS)
                   => /\ Returns(i)
                      /\ Emits(i) = <<>>
                      /\ SharedUnchanged
            /\ (t.pc = 67 /\ t.now - LastSend(t.sid) >= MIN_SECONDS_BETWEEN_MSGS)
                   => (tasks'[i].pc \in {19, 69} /\ SharedUnchanged)
            /\ t.pc = 19 => tasks'[i].pc = 69
      ]_vars

\* a message was accepted, a send half an interval later was rejected and a
\* send a whole interval later has passed the throttle
C18_Witness ==
    \E i, j \in Slots :
        /\ Len(accepted_log) = 1
        /\ accepted_log[1].at = StartTime
        /\ LastSend("c1") = StartTime
        /\ Returned(i, "send_message")
        /\ tasks[i].data.message = Some(Str_hi_padded)
        /\ tasks[i].out = <<>>
        /\ tasks[j].op = "send_message"
        /\ tasks[j].pc = 69
        /\ tasks[j].now = StartTime + MIN_SECONDS_BETWEEN_MSGS

\* the new_message broadcasts so far, in emit order
NewMessages ==
    LET log == SelectSeq(emitted, LAMBDA e : e.event = "new_message")
    IN  [k \in 1..Len(log) |-> log[k].payload]

\* C19: when every appended message has been broadcast, the new_message
\* broadcasts were emitted in the order the messages have in the history.
C19_HistoryOrderIsBroadcastOrder ==
    Len(NewMessages) = Len(accepted_log) => NewMessages = AcceptedMsgs

\* C20: no new_message of a connection is broadcast after its user_left.
C20_NothingAfterUserLeft ==
    \A j, k \in 1..Len(emitted) :
        (j < k /\ emitted[j].event = "user_left" /\ emitted[j].sid = emitted[k].sid)
            => emitted[k].event # "new_message"
====
